---- MODULE Spec2Model ----
(***************************************************************************)
(* Model of mordred/_base.py: Key, Descriptor, Molecule (the variant       *)
(* cache) and Calculator (registration and memoized evaluation).           *)
(***************************************************************************)
EXTENDS Integers, Sequences, FiniteSets, TLC

(* descriptors, aggr: Calculator.descriptors and the three aggregate flags;
   regErr: the exception the last register call ended with;
   molecule: Calculator.molecule (or the Molecule under study in SpecMol);
   got: what the calls studied on their own returned (Molecule.get in
        SpecMol, the Key comparisons in SpecKey);
   gens: the generators returned by Calculator.__call__, each with its
         result cache; stack, cur: the _calculate frames of the generator
         being advanced *)
VARIABLES descriptors, aggr, regErr, molecule, got, gens, stack, cur

vars == <<descriptors, aggr, regErr, molecule, got, gens, stack, cur>>

(***************************************************************************)
(* Bounds                                                                  *)
(***************************************************************************)
MaxGets == 3
MaxReg == 3
MaxDepth == 4
MaxRegLen == 3
MaxKeyArgs == 2

RawInputs == {"x1", "x2"}

(***************************************************************************)
(* Finite maps (python dict)                                               *)
(***************************************************************************)
EmptyMap == [k \in {} |-> k]

Put(m, k, v) == [x \in (DOMAIN m) \cup {k} |-> IF x = k THEN v ELSE m[x]]

(***************************************************************************)
(* rdkit transforms, on the content of a molecule object                   *)
(***************************************************************************)
RawMol(x) == [raw |-> x, H |-> "orig", kek |-> FALSE, chg |-> FALSE]

AddHs(c) == [c EXCEPT !.H = "explicit"]

RemoveHs(c) == [c EXCEPT !.H = "implicit"]

Kekulize(c) == [c EXCEPT !.kek = TRUE]

ComputeGasteigerCharges(c) == [c EXCEPT !.chg = TRUE]

(***************************************************************************)
(* class Molecule.  heap is the sequence of molecule objects the Molecule  *)
(* has created (an object is its index); cache maps a flag triple to an    *)
(* object.  ops counts the derivations that were run.                      *)
(***************************************************************************)
ZeroOps == [hyd |-> [e \in BOOLEAN |-> 0],
            kek |-> [e \in BOOLEAN |-> 0],
            gas |-> [f \in BOOLEAN \X BOOLEAN |-> 0],
            get |-> 0]

NoMolecule == [orig |-> RawMol("none"), cache |-> EmptyMap, heap |-> <<>>, ops |-> ZeroOps]

MoleculeInit(x) == [orig |-> Kekulize(RawMol(x)), cache |-> EmptyMap, heap |-> <<>>, ops |-> ZeroOps]

key(explicitH, kek, gas) == <<explicitH, kek, gas>>

InCache(k, cache) == k \in DOMAIN cache

(* hydration without the cache lookup *)
hydrationNoMemo(m, explicitH) ==
    LET k == key(explicitH, FALSE, FALSE)
        mol == IF explicitH THEN AddHs(m.orig) ELSE RemoveHs(m.orig)
        o == Len(m.heap) + 1
    IN [m |-> [m EXCEPT !.heap = Append(@, mol),
                        !.cache = Put(@, k, o),
                        !.ops.hyd[explicitH] = @ + 1],
        obj |-> o]

hydration(m, explicitH) ==
    LET k == key(explicitH, FALSE, FALSE) IN
    IF InCache(k, m.cache)
    THEN [m |-> m, obj |-> m.cache[k]]
    ELSE LET mol == IF explicitH THEN AddHs(m.orig) ELSE RemoveHs(m.orig)
             o == Len(m.heap) + 1
         IN [m |-> [m EXCEPT !.heap = Append(@, mol),
                             !.cache = Put(@, k, o),
                             !.ops.hyd[explicitH] = @ + 1],
             obj |-> o]

(* kekulize deriving from the raw input, without the hydration step *)
kekulizeFromOrig(m, explicitH) ==
    LET k == key(explicitH, TRUE, FALSE) IN
    IF InCache(k, m.cache)
    THEN [m |-> m, obj |-> m.cache[k]]
    ELSE LET o == Len(m.heap) + 1
         IN [m |-> [m EXCEPT !.heap = Append(@, Kekulize(IF explicitH THEN AddHs(m.orig) ELSE RemoveHs(m.orig))),
                             !.cache = Put(@, k, o),
                             !.ops.kek[explicitH] = @ + 1],
             obj |-> o]

kekulize(m, explicitH) ==
    LET k == key(explicitH, TRUE, FALSE) IN
    IF InCache(k, m.cache)
    THEN [m |-> m, obj |-> m.cache[k]]
    ELSE LET h == hydration(m, explicitH)
             o == Len(h.m.heap) + 1
         IN [m |-> [h.m EXCEPT !.heap = Append(@, Kekulize(h.m.heap[h.obj])),
                               !.cache = Put(@, k, o),
                               !.ops.kek[explicitH] = @ + 1],
             obj |-> o]

gasteiger(m, explicitH, kek) ==
    LET k == key(explicitH, kek, TRUE) IN
    IF InCache(k, m.cache)
    THEN [m |-> m, obj |-> m.cache[k]]
    ELSE LET b == IF kek THEN kekulize(m, explicitH) ELSE hydration(m, explicitH)
         IN [m |-> [b.m EXCEPT !.heap[b.obj] = ComputeGasteigerCharges(@),
                               !.cache = Put(@, k, b.obj),
                               !.ops.gas[<<explicitH, kek>>] = @ + 1],
             obj |-> b.obj]

get(m, explicitH, kek, gas) ==
    LET k == key(explicitH, kek, gas)
        c == [m EXCEPT !.ops.get = @ + 1]
    IN IF InCache(k, c.cache)
       THEN [m |-> c, obj |-> c.cache[k]]
       ELSE IF gas THEN gasteiger(c, explicitH, kek)
            ELSE IF kek THEN kekulize(c, explicitH)
            ELSE hydration(c, explicitH)

(***************************************************************************)
(* Variant cache on its own: a Molecule and a sequence of get calls        *)
(***************************************************************************)
MolNew(x) ==
    /\ molecule' = MoleculeInit(x)
    /\ got' = <<>>
    /\ UNCHANGED <<descriptors, aggr, regErr, gens, stack, cur>>

MolGet(e, k, g) ==
    /\ molecule.orig.raw # "none"
    /\ molecule.ops.get < MaxGets
    /\ LET r == get(molecule, e, k, g) IN
        /\ molecule' = r.m
        /\ got' = Append(got, [flags |-> key(e, k, g), obj |-> r.obj, mol |-> r.m.heap[r.obj]])
    /\ UNCHANGED <<descriptors, aggr, regErr, gens, stack, cur>>

InitMol ==
    /\ descriptors = <<>>
    /\ aggr = [explicitH |-> FALSE, gasteiger |-> FALSE, kekulize |-> FALSE]
    /\ regErr = "none"
    /\ molecule = NoMolecule
    /\ got = <<>>
    /\ gens = <<>>
    /\ stack = <<>>
    /\ cur = 0

NextMol ==
    \/ \E x \in RawInputs : MolNew(x)
    \/ \E e \in BOOLEAN, k \in BOOLEAN, g \in BOOLEAN : MolGet(e, k, g)

SpecMol == InitMol /\ [][NextMol]_vars

(***************************************************************************)
(* Descriptor classes used as inputs.  arity: number of constructor        *)
(* arguments; deps: the dependencies property, in dict order; keymode:     *)
(* "default" (Descriptor.descriptor_key), "args" (overridden to            *)
(* make_key(args...)) or "none" (overridden to return None); presets: the    *)
(* argument tuples preset() constructs; fails: calculate raises.           *)
(***************************************************************************)
NoArgs == <<>>

Inst(c, a) == [cls |-> c, args |-> a]

Key(c, a) == [cls |-> c, args |-> a]

NoneKey == [cls |-> "None", args |-> NoArgs]

DepInst(n, c, a) == [name |-> n, kind |-> "inst", cls |-> c, args |-> a]

DepKey(n, c, a) == [name |-> n, kind |-> "key", cls |-> c, args |-> a]

DepNone(n) == [name |-> n, kind |-> "none", cls |-> "None", args |-> NoArgs]

Flags(e, k, g) == [explicit_hydrogens |-> e, kekulize |-> k, gasteiger_charges |-> g]

Class(ar, ds, km, fl, ps, bad) ==
    [arity |-> ar, deps |-> ds, keymode |-> km, flags |-> fl, presets |-> ps, fails |-> bad]

Classes ==
    [A  |-> Class(0, <<>>, "default", Flags(TRUE, FALSE, FALSE), <<NoArgs>>, FALSE),
     D  |-> Class(0, <<DepNone("d"), DepInst("a", "A", NoArgs), DepKey("k", "A", NoArgs)>>, "default", Flags(FALSE, TRUE, FALSE), <<NoArgs>>, FALSE),
     G  |-> Class(0, <<>>, "default", Flags(TRUE, FALSE, TRUE), <<NoArgs>>, FALSE),
     P  |-> Class(1, <<>>, "default", Flags(TRUE, FALSE, FALSE), <<<<1>>, <<2>>>>, FALSE),
     F  |-> Class(0, <<DepInst("a", "A", NoArgs)>>, "default", Flags(TRUE, FALSE, FALSE), <<NoArgs>>, TRUE),
     E  |-> Class(0, <<DepKey("f", "F", NoArgs)>>, "default", Flags(TRUE, FALSE, FALSE), <<NoArgs>>, FALSE),
     W  |-> Class(0, <<DepKey("p", "P", <<1>>), DepKey("q", "P", <<1>>)>>, "default", Flags(TRUE, FALSE, TRUE), <<NoArgs>>, FALSE),
     Y1 |-> Class(0, <<DepKey("y", "Y2", NoArgs)>>, "default", Flags(TRUE, FALSE, FALSE), <<NoArgs>>, FALSE),
     Y2 |-> Class(0, <<DepKey("y", "Y1", NoArgs)>>, "default", Flags(TRUE, FALSE, FALSE), <<NoArgs>>, FALSE),
     N  |-> Class(0, <<>>, "none", Flags(TRUE, FALSE, FALSE), <<NoArgs>>, FALSE),
     K  |-> Class(0, <<DepKey("k", "A", <<1>>)>>, "default", Flags(TRUE, FALSE, FALSE), <<NoArgs>>, FALSE)]

DescriptorTypes == DOMAIN Classes

IsDescriptorType(c) == c \in DescriptorTypes

(* cls(args...): TypeError when the arguments do not fit the constructor *)
Constructible(c, a) == IsDescriptorType(c) /\ Len(a) = Classes[c].arity

(***************************************************************************)
(* class Key and the Descriptor properties                                 *)
(***************************************************************************)
make_key(c, a) == Key(c, a)

descriptor_key(d) ==
    IF Classes[d.cls].keymode = "none" THEN NoneKey
    ELSE IF Classes[d.cls].keymode = "args" THEN make_key(d.cls, d.args)
    ELSE make_key(d.cls, NoArgs)

dependencies(d) == Classes[d.cls].deps

HashMod == 7

RECURSIVE HashArgs(_)
HashArgs(a) == IF a = <<>> THEN 3 ELSE (31 * HashArgs(Tail(a)) + Head(a)) % HashMod

KeyHash(k) == <<k.cls, HashArgs(k.args)>>

(* tuple comparison: same length and equal elements position by position *)
RECURSIVE TupleEq(_, _)
TupleEq(a, b) ==
    IF a = <<>> \/ b = <<>> THEN a = <<>> /\ b = <<>>
    ELSE Head(a) = Head(b) /\ TupleEq(Tail(a), Tail(b))

(* arguments compared without regard to their order *)
KeyEqUnordered(k1, k2) ==
    /\ k1.cls = k2.cls
    /\ Len(k1.args) = Len(k2.args)
    /\ {k1.args[i] : i \in 1..Len(k1.args)} = {k2.args[i] : i \in 1..Len(k2.args)}

KeyEq(k1, k2) == k1.cls = k2.cls /\ TupleEq(k1.args, k2.args)

KeyNe(k1, k2) == k1.cls # k2.cls \/ ~TupleEq(k1.args, k2.args)

(***************************************************************************)
(* Keys on their own: two keys are built and compared                      *)
(***************************************************************************)
KeyTypes == {"A", "P", "W"}

KeyArgVals == {1, 2}

KeyArgs == UNION {[1..n -> KeyArgVals] : n \in 0..MaxKeyArgs}

KeyCompare(c1, a1, c2, a2) ==
    /\ LET k1 == Key(c1, a1)
           k2 == Key(c2, a2)
       IN got' = <<[k1 |-> k1, k2 |-> k2, eq |-> KeyEq(k1, k2), ne |-> KeyNe(k1, k2),
                   h1 |-> KeyHash(k1), h2 |-> KeyHash(k2)]>>
    /\ UNCHANGED <<descriptors, aggr, regErr, molecule, gens, stack, cur>>

InitKey ==
    /\ descriptors = <<>>
    /\ aggr = [explicitH |-> FALSE, gasteiger |-> FALSE, kekulize |-> FALSE]
    /\ regErr = "none"
    /\ molecule = NoMolecule
    /\ got = <<>>
    /\ gens = <<>>
    /\ stack = <<>>
    /\ cur = 0

NextKey == \E c1 \in KeyTypes, c2 \in KeyTypes, a1 \in KeyArgs, a2 \in KeyArgs : KeyCompare(c1, a1, c2, a2)

SpecKey == InitKey /\ [][NextKey]_vars

KeyStr(k) == IF k = NoneKey THEN <<"None", 0>> ELSE <<k.cls, HashArgs(k.args)>>

descriptor_name(d) == KeyStr(descriptor_key(d))

(***************************************************************************)
(* Registration items: python values handed to Calculator.register         *)
(***************************************************************************)
Item(t, c, a, es, pv) == [tag |-> t, cls |-> c, args |-> a, elems |-> es, priv |-> pv]

IInst(c, a) == Item("inst", c, a, <<>>, FALSE)

IObj(v) == Item("obj", "int", <<v>>, <<>>, FALSE)

IType(c) == Item("type", c, NoArgs, <<>>, FALSE)

ITuple(es) == Item("tuple", "tuple", NoArgs, es, FALSE)

IList(es) == Item("list", "list", NoArgs, es, FALSE)

IStr(n) == Item("str", "str", <<n>>, <<>>, FALSE)

IModule(es) == Item("module", "module", NoArgs, es, FALSE)

Private(it) == [it EXCEPT !.priv = TRUE]

(* hasattr(desc, '__iter__'): lists, tuples, strings, and the classes that
   define __iter__ (list, tuple, str themselves) *)
HasIter(it) ==
    \/ it.tag \in {"tuple", "list", "str"}
    \/ it.tag = "type" /\ it.cls \in {"list", "tuple", "str"}

(* what iterating the value yields *)
Iterate(it) ==
    IF it.tag = "str" THEN [i \in 1..it.args[1] |-> IStr(1)] ELSE it.elems

ArgOf(it) == IF it.tag = "obj" THEN it.args[1] ELSE 0

ArgsOf(es) == [i \in 1..Len(es) |-> ArgOf(es[i])]

NoCalc == [descriptors |-> <<>>,
           aggr |-> [explicitH |-> FALSE, gasteiger |-> FALSE, kekulize |-> FALSE],
           err |-> "none"]

Fail(st, e) == [st EXCEPT !.err = e]

(* the aggregate flags overwritten by the flags of the last descriptor *)
register_oneAssign(st, desc) ==
    IF desc.tag # "inst"
    THEN Fail(st, "ValueError")
    ELSE LET d == Inst(desc.cls, desc.args)
             f == Classes[d.cls].flags
         IN [st EXCEPT !.descriptors = Append(@, d),
                       !.aggr.explicitH = f.explicit_hydrogens,
                       !.aggr.gasteiger = f.gasteiger_charges,
                       !.aggr.kekulize = f.kekulize]

register_one(st, desc) ==
    IF desc.tag # "inst"
    THEN Fail(st, "ValueError")
    ELSE LET d == Inst(desc.cls, desc.args)
             f == Classes[d.cls].flags
         IN [st EXCEPT !.descriptors = Append(@, d),
                       !.aggr.explicitH = @ \/ f.explicit_hydrogens,
                       !.aggr.gasteiger = @ \/ f.gasteiger_charges,
                       !.aggr.kekulize = @ \/ f.kekulize]

(* cls(args...) for any class: a descriptor instance, a plain object, or TypeError *)
Instantiate(c, a) ==
    IF c = "Descriptor" THEN [ok |-> FALSE, val |-> IObj(0)]
    ELSE IF IsDescriptorType(c)
         THEN [ok |-> Constructible(c, a), val |-> IInst(c, a)]
         ELSE [ok |-> Len(a) <= 1, val |-> IObj(0)]

RECURSIVE register_presets(_, _, _)
register_presets(st, c, ps) ==
    IF ps = <<>> \/ st.err # "none" THEN st
    ELSE LET i == Instantiate(c, Head(ps)) IN
         IF ~i.ok THEN Fail(st, "TypeError")
         ELSE register_presets(register_one(st, i.val), c, Tail(ps))

(* for d in desc.preset(): self._register_one(d) *)
register_type(st, c) ==
    IF c = "Descriptor" THEN register_presets(st, c, <<NoArgs>>)
    ELSE IF IsDescriptorType(c) THEN register_presets(st, c, Classes[c].presets)
    ELSE Fail(st, "AttributeError")

RECURSIVE register(_, _, _)
RECURSIVE register_module(_, _, _)
RECURSIVE register_item(_, _, _)

register_item(st, desc, depth) ==
    IF ~HasIter(desc)
    THEN IF desc.tag = "type" THEN register_type(st, desc.cls)
         ELSE IF desc.tag = "module" THEN register_module(st, desc.elems, depth)
         ELSE register_one(st, desc)
    ELSE IF desc.tag = "tuple" /\ desc.elems = <<>> THEN Fail(st, "IndexError")
    ELSE IF desc.tag = "tuple" /\ desc.elems[1].tag = "type"
         THEN LET i == Instantiate(desc.elems[1].cls, ArgsOf(Tail(desc.elems))) IN
              IF ~i.ok THEN Fail(st, "TypeError") ELSE register_one(st, i.val)
    ELSE IF desc.tag = "type" THEN Fail(st, "TypeError")
    ELSE LET RECURSIVE each(_, _)
             each(s, es) ==
                 IF es = <<>> \/ s.err # "none" THEN s
                 ELSE each(register(s, <<Head(es)>>, depth + 1), Tail(es))
         IN each(st, Iterate(desc))

register_module(st, members, depth) ==
    IF members = <<>> \/ st.err # "none" THEN st
    ELSE LET d == Head(members) IN
         IF d.priv THEN register_module(st, Tail(members), depth)
         ELSE IF d.tag # "type" THEN Fail(st, "TypeError")
         ELSE IF IsDescriptorType(d.cls) \/ d.cls = "Descriptor"
              THEN register_module(register(st, <<d>>, depth + 1), Tail(members), depth)
              ELSE register_module(st, Tail(members), depth)

register(st, descs, depth) ==
    IF depth > MaxDepth THEN Fail(st, "RecursionError")
    ELSE IF descs = <<>> \/ st.err # "none" THEN st
    ELSE register(register_item(st, Head(descs), depth), Tail(descs), depth)

(***************************************************************************)
(* Registration on its own                                                 *)
(***************************************************************************)
RegItems ==
    {IInst("A", NoArgs), IInst("G", NoArgs), IInst("D", NoArgs), IInst("P", <<1>>),
     IObj(5), IType("A"), IType("P"), IType("int"), IType("list"), IStr(0), IStr(2),
     IList(<<>>), ITuple(<<>>),
     ITuple(<<IType("P"), IObj(2)>>),
     ITuple(<<IType("A"), IInst("G", NoArgs)>>),
     ITuple(<<IType("A")>>),
     ITuple(<<IInst("A", NoArgs), IType("D")>>),
     IModule(<<IType("D"), IType("G"), Private(IObj(1)), IType("int")>>),
     IModule(<<IType("A"), IType("Descriptor")>>),
     IList(<<IModule(<<IType("A"), IObj(3), IType("G")>>)>>),
     IList(<<IType("A"), ITuple(<<IType("P"), IObj(1)>>),
             IModule(<<IType("D"), IType("G")>>),
             IList(<<IInst("E", NoArgs), IInst("G", NoArgs)>>)>>),
     IList(<<IInst("A", NoArgs), IList(<<>>), IInst("E", NoArgs)>>),
     IList(<<IInst("A", NoArgs), ITuple(<<>>), IInst("E", NoArgs)>>),
     IList(<<IInst("G", NoArgs), IObj(5), IInst("A", NoArgs)>>)}

Register(item) ==
    /\ Len(descriptors) < MaxRegLen
    /\ LET st == register([descriptors |-> descriptors, aggr |-> aggr, err |-> "none"],
                          <<item>>, 1)
       IN /\ descriptors' = st.descriptors
          /\ aggr' = st.aggr
          /\ regErr' = st.err
    /\ UNCHANGED <<molecule, got, gens, stack, cur>>

InitReg ==
    /\ descriptors = NoCalc.descriptors
    /\ aggr = NoCalc.aggr
    /\ regErr = "none"
    /\ molecule = NoMolecule
    /\ got = <<>>
    /\ gens = <<>>
    /\ stack = <<>>
    /\ cur = 0

NextReg == \E item \in RegItems : Register(item)

SpecReg == InitReg /\ [][NextReg]_vars

(***************************************************************************)
(* Evaluation.  gens[g] is the generator the g-th Calculator.__call__      *)
(* returned: its result cache, its position in self.descriptors, the pairs *)
(* it has yielded (out) and the calculate invocations it made (log).       *)
(* stack holds the frames of _calculate of the next() call in progress.    *)
(***************************************************************************)
NoneVal == <<>>

RECURSIVE ArgVals(_)
ArgVals(argv) == IF argv = <<>> THEN <<>> ELSE Head(argv).val \o ArgVals(Tail(argv))

(* desc.calculate(mol, **args): a value that records who computed it, from
   which molecule object content and from which dependency values *)
calculate(d, mol, argv) == <<[cls |-> d.cls, args |-> d.args, mol |-> mol]>> \o ArgVals(argv)

Ref(isKey, c, a) == [isKey |-> isKey, cls |-> c, args |-> a]

RefKey(r) == IF r.isKey THEN Key(r.cls, r.args) ELSE descriptor_key(Inst(r.cls, r.args))

Frame(r) == [desc |-> r, phase |-> "enter", todo |-> <<>>, argv |-> <<>>]

NewGen(x) == [raw |-> x, cache |-> EmptyMap, idx |-> 0, status |-> "open",
              err |-> "none", out |-> <<>>, log |-> <<>>]

Top == stack[Len(stack)]

(* _calculate returns v: to the generator (which yields the pair) or to the
   dict comprehension of the calling frame *)
Returned(gs, g, v) ==
    IF Len(stack) = 1
    THEN [gens |-> [gs EXCEPT ![g].out = Append(@, [name |-> descriptor_name(descriptors[gs[g].idx + 1]),
                                                     value |-> v]),
                              ![g].idx = @ + 1],
          stack |-> <<>>, cur |-> 0]
    ELSE LET parent == stack[Len(stack) - 1]
             dep == Head(parent.todo)
         IN [gens |-> gs,
             stack |-> Append(SubSeq(stack, 1, Len(stack) - 2),
                              [parent EXCEPT !.argv = Append(@, [name |-> dep.name,
                                                                  key |-> RefKey(Ref(dep.kind = "key", dep.cls, dep.args)),
                                                                  val |-> v]),
                                             !.todo = Tail(@)]),
             cur |-> g]

(* the exception swallowed and the element skipped *)
RaisedSwallowed(gs, g, e) ==
    [gens |-> [gs EXCEPT ![g].idx = @ + 1], stack |-> <<>>, cur |-> 0]

(* an exception leaves every frame and finishes the generator *)
Raised(gs, g, e) ==
    [gens |-> [gs EXCEPT ![g].status = "failed", ![g].err = e],
     stack |-> <<>>, cur |-> 0]

CacheHit(k, cache) == k \in DOMAIN cache

(* the key line 206 stores under: descriptor_key of desc after create() *)
StoreKey(d) == descriptor_key(d)

(* the raw inputs are interchangeable, so the first call is taken to be on
   this one; the second is on either *)
FirstRaw == "x1"

(* evaluate() is called as many times as there are raw inputs; the same
   input may be given twice *)
NCalls == Cardinality(RawInputs)

Call(x) ==
    /\ stack = <<>>
    /\ Len(gens) < NCalls
    /\ gens = <<>> => x = FirstRaw
    /\ gens' = Append(gens, NewGen(x))
    /\ molecule' = MoleculeInit(x)
    /\ UNCHANGED <<descriptors, aggr, regErr, got, stack, cur>>

GenNext(g) ==
    /\ stack = <<>>
    /\ g \in 1..Len(gens)
    /\ gens[g].status = "open"
    /\ IF gens[g].idx = Len(descriptors)
       THEN /\ gens' = [gens EXCEPT ![g].status = "done"]
            /\ UNCHANGED <<stack, cur>>
       ELSE LET d == descriptors[gens[g].idx + 1] IN
            /\ stack' = <<Frame(Ref(FALSE, d.cls, d.args))>>
            /\ cur' = g
            /\ UNCHANGED gens
    /\ UNCHANGED <<descriptors, aggr, regErr, molecule, got>>

Resolve ==
    /\ stack # <<>>
    /\ Top.phase = "enter"
    /\ LET r == Top.desc
           k == RefKey(r)
           res == IF CacheHit(k, gens[cur].cache)
                  THEN Returned(gens, cur, gens[cur].cache[k])
                  ELSE IF r.isKey /\ ~Constructible(r.cls, r.args)
                       THEN Raised(gens, cur, "ValueError: cannot create")
                       ELSE [gens |-> gens,
                             stack |-> [stack EXCEPT ![Len(stack)] =
                                          [desc |-> Ref(FALSE, r.cls, r.args), phase |-> "deps",
                                           todo |-> dependencies(Inst(r.cls, r.args)), argv |-> <<>>]],
                             cur |-> cur]
       IN /\ gens' = res.gens
          /\ stack' = res.stack
          /\ cur' = res.cur
    /\ UNCHANGED <<descriptors, aggr, regErr, molecule, got>>

(* a None dependency left out of the mapping *)
PassNoneDropped(argv, dep) == argv

(* a dependency declared None goes into the mapping as None, under its name *)
PassNone(argv, dep) == Append(argv, [name |-> dep.name, key |-> NoneKey, val |-> NoneVal])

Dep ==
    /\ stack # <<>>
    /\ Top.phase = "deps"
    /\ Top.todo # <<>>
    /\ LET dep == Head(Top.todo)
           res == IF dep.kind = "none"
                  THEN [gens |-> gens,
                        stack |-> [stack EXCEPT ![Len(stack)].argv = PassNone(@, dep),
                                   ![Len(stack)].todo = Tail(@)],
                        cur |-> cur]
                  ELSE IF Len(stack) >= MaxDepth
                       THEN Raised(gens, cur, "RecursionError")
                       ELSE [gens |-> gens,
                             stack |-> Append(stack, Frame(Ref(dep.kind = "key", dep.cls, dep.args))),
                             cur |-> cur]
       IN /\ gens' = res.gens
          /\ stack' = res.stack
          /\ cur' = res.cur
    /\ UNCHANGED <<descriptors, aggr, regErr, molecule, got>>

(* the check for a missing key left out *)
KeyMissingIgnored(k) == FALSE

(* desc.descriptor_key is None *)
KeyMissing(k) == k = NoneKey

Compute ==
    /\ stack # <<>>
    /\ Top.phase = "deps"
    /\ Top.todo = <<>>
    /\ LET d == Inst(Top.desc.cls, Top.desc.args)
           f == Classes[d.cls].flags
           mg == get(molecule, f.explicit_hydrogens, f.kekulize, f.gasteiger_charges)
           mol == mg.m.heap[mg.obj]
           r == calculate(d, mol, Top.argv)
           logged == [gens EXCEPT ![cur].log =
                         Append(@, [key |-> descriptor_key(d), desc |-> d, mol |-> mol,
                                    argv |-> Top.argv, elem |-> gens[cur].idx + 1])]
           res == IF Classes[d.cls].fails
                  THEN Raised(logged, cur, "ComputationError")
                  ELSE IF KeyMissing(descriptor_key(d))
                       THEN Raised(logged, cur, "ValueError: [bug] descriptor key not provided")
                       ELSE Returned([logged EXCEPT ![cur].cache = Put(@, StoreKey(d), r)], cur, r)
       IN /\ molecule' = mg.m
          /\ gens' = res.gens
          /\ stack' = res.stack
          /\ cur' = res.cur
    /\ UNCHANGED <<descriptors, aggr, regErr, got>>

Registered == {Inst("D", NoArgs), Inst("P", <<1>>), Inst("P", <<2>>), Inst("E", NoArgs),
               Inst("W", NoArgs), Inst("Y1", NoArgs), Inst("N", NoArgs), Inst("K", NoArgs)}

RECURSIVE AggrOf(_)
AggrOf(ds) ==
    IF ds = <<>> THEN NoCalc
    ELSE register_one(AggrOf(SubSeq(ds, 1, Len(ds) - 1)),
                      IInst(ds[Len(ds)].cls, ds[Len(ds)].args))

Init ==
    /\ descriptors \in UNION {[1..n -> Registered] : n \in 1..MaxReg}
    /\ aggr = AggrOf(descriptors).aggr
    /\ regErr = "none"
    /\ molecule = NoMolecule
    /\ got = <<>>
    /\ gens = <<>>
    /\ stack = <<>>
    /\ cur = 0

Next ==
    \/ \E x \in RawInputs : Call(x)
    \/ \E g \in 1..NCalls : GenNext(g)
    \/ Resolve
    \/ Dep
    \/ Compute

Spec == Init /\ [][Next]_vars

(***************************************************************************)
(* Properties                                                              *)
(***************************************************************************)
Gens == 1..Len(gens)

Log(g) == gens[g].log

(* C1: within one evaluate() call the compute operation of every descriptor
   identity is invoked at most once, whether it is referenced as an instance
   or as a bare key, and every dependent receives the same value for it *)
C1_ComputedOnce ==
    \A g \in Gens :
        /\ \A i, j \in 1..Len(Log(g)) : i # j => Log(g)[i].key # Log(g)[j].key
        /\ \A i, j \in 1..Len(Log(g)) :
              \A a \in 1..Len(Log(g)[i].argv), b \in 1..Len(Log(g)[j].argv) :
                  Log(g)[i].argv[a].key = Log(g)[j].argv[b].key
                      => Log(g)[i].argv[a].val = Log(g)[j].argv[b].val

(* C2: every compute invoked while consuming the sequence of evaluate(x)
   receives a variant derived from x *)
C2_OwnVariant ==
    \A g \in Gens : \A i \in 1..Len(Log(g)) : Log(g)[i].mol.raw = gens[g].raw

InProgress == {i \in 1..Len(stack) : stack[i].phase = "deps"}

(* C3: resolution never re-enters an identity that is in progress and never
   runs into the recursion limit; a cycle ends in CycleDetected *)
C3_CycleDetected ==
    /\ \A i, j \in InProgress : i # j => RefKey(stack[i].desc) # RefKey(stack[j].desc)
    /\ \A g \in Gens : gens[g].err # "RecursionError"

ComputeFails ==
    /\ stack # <<>>
    /\ Top.phase = "deps"
    /\ Top.todo = <<>>
    /\ Classes[Top.desc.cls].fails

(* C4: when the compute of a descriptor raises while element i is produced,
   the consumer gets that error at element i, the result cache and the pairs
   already yielded are unchanged (no entry is added for the descriptor), and
   the sequence yields nothing more *)
C4_FailureAborts ==
    [][ /\ ComputeFails =>
            /\ gens'[cur].status = "failed"
            /\ gens'[cur].err = "ComputationError"
            /\ gens'[cur].cache = gens[cur].cache
            /\ gens'[cur].out = gens[cur].out
            /\ gens'[cur].idx = gens[cur].idx
            /\ stack' = <<>>
        /\ \A g \in Gens : gens[g].status = "failed" => gens'[g] = gens[g]
      ]_vars

C4_Witness ==
    \E g \in Gens :
        /\ gens[g].status = "failed"
        /\ gens[g].err = "ComputationError"
        /\ Len(gens[g].out) = 1
        /\ Key("A", NoArgs) \in DOMAIN gens[g].cache
        /\ \E i \in 1..Len(Log(g)) : Log(g)[i].desc.cls = "F" /\ Log(g)[i].elem = 2

(* C5: a fully consumed evaluate() yields one pair per registered descriptor
   in registration order, each pair being the descriptor's name and the value
   resolved for it; a second registration of the same descriptor carries the
   same value and is produced without another compute *)
C5_PairsInOrder ==
    /\ [](\A g \in Gens : gens[g].status = "done" =>
            /\ Len(gens[g].out) = Len(descriptors)
            /\ \A i \in 1..Len(descriptors) :
                  gens[g].out[i].name = descriptor_name(descriptors[i])
            /\ \A i, j \in 1..Len(descriptors) :
                  (i < j /\ descriptors[i] = descriptors[j]) =>
                      /\ gens[g].out[i].value = gens[g].out[j].value
                      /\ \A n \in 1..Len(Log(g)) : Log(g)[n].elem # j)
    /\ [][\A g \in Gens : gens'[g].out # gens[g].out =>
            gens'[g].out = Append(gens[g].out,
                [name |-> descriptor_name(descriptors[gens[g].idx + 1]),
                 value |-> gens'[g].cache[descriptor_key(descriptors[gens[g].idx + 1])]])
         ]_vars

(* C6: on one variant cache every derivation (hydrogen form per explicitness,
   canonical bond order per explicitness, charge annotation per combination)
   runs at most once, whatever get calls are made *)
C6_DerivedOnce ==
    /\ \A e \in BOOLEAN : molecule.ops.hyd[e] <= 1 /\ molecule.ops.kek[e] <= 1
    /\ \A f \in BOOLEAN \X BOOLEAN : molecule.ops.gas[f] <= 1

C6_Witness ==
    /\ Len(got) >= 2
    /\ got[1].flags = key(TRUE, FALSE, FALSE)
    /\ got[2].flags = key(TRUE, TRUE, FALSE)
    /\ molecule.ops.hyd[TRUE] = 1
    /\ molecule.ops.kek[TRUE] = 1

(* C7: the variant cached under flags without charge annotation is never
   charge-annotated by a later get *)
C7_InputNotMutated ==
    \A k \in DOMAIN molecule.cache : ~k[3] => ~molecule.heap[molecule.cache[k]].chg

RECURSIVE Concat(_)
Concat(ss) == IF ss = <<>> THEN <<>> ELSE Head(ss) \o Concat(Tail(ss))

IsPair(it) ==
    /\ it.tag = "tuple"
    /\ it.elems # <<>>
    /\ it.elems[1].tag = "type"
    /\ \A i \in 2..Len(it.elems) : it.elems[i].tag = "obj"

(* the items the registration protocol names, and the instances they stand for *)
RECURSIVE IsRegItem(_)
IsRegItem(it) ==
    CASE it.tag = "inst" -> TRUE
      [] it.tag = "type" -> IsDescriptorType(it.cls)
      [] it.tag = "module" ->
            \A i \in 1..Len(it.elems) : ~(it.elems[i].tag = "type" /\ it.elems[i].cls = "Descriptor")
      [] IsPair(it) -> Constructible(it.elems[1].cls, ArgsOf(Tail(it.elems)))
      [] it.tag \in {"list", "tuple"} /\ ~IsPair(it) ->
            /\ it.elems # <<>>
            /\ \A i \in 1..Len(it.elems) : IsRegItem(it.elems[i])
      [] OTHER -> FALSE

RECURSIVE Resolved(_)
Resolved(it) ==
    CASE it.tag = "inst" -> <<Inst(it.cls, it.args)>>
      [] it.tag = "type" -> [i \in 1..Len(Classes[it.cls].presets) |-> Inst(it.cls, Classes[it.cls].presets[i])]
      [] it.tag = "module" ->
            Concat([i \in 1..Len(it.elems) |->
                      IF ~it.elems[i].priv /\ it.elems[i].tag = "type" /\ IsDescriptorType(it.elems[i].cls)
                      THEN Resolved(it.elems[i]) ELSE <<>>])
      [] IsPair(it) -> <<Inst(it.elems[1].cls, ArgsOf(Tail(it.elems)))>>
      [] OTHER -> Concat([i \in 1..Len(it.elems) |-> Resolved(it.elems[i])])

(* C8: registering a nested sequence of registration items leaves the same
   descriptor list as registering each resolved instance in order *)
C8_Flattening ==
    [][\A item \in RegItems :
          (item.tag \in {"list", "tuple"} /\ IsRegItem(item) /\ Register(item)) =>
              /\ regErr' = "none"
              /\ descriptors' = descriptors \o Resolved(item)
      ]_vars

NotAnItem(it) ==
    \/ it.tag \in {"obj", "str"}
    \/ it.tag = "type" /\ ~IsDescriptorType(it.cls)
    \/ it.tag \in {"list", "tuple"} /\ it.elems = <<>>

(* C9: an item that does not resolve to a descriptor instance makes register
   fail with the registration error and is not appended *)
C9_RegistrationError ==
    [][\A item \in RegItems :
          (NotAnItem(item) /\ Register(item)) =>
              /\ regErr' = "ValueError"
              /\ descriptors' = descriptors
      ]_vars

(* C10: instances of one type with different constructor arguments have
   different default keys, so each is computed and each output pair carries
   the value of its own instance *)
C10_OwnValue ==
    \A g \in Gens : gens[g].status = "done" =>
        \A i \in 1..Len(descriptors) :
            /\ gens[g].out[i].value[1].cls = descriptors[i].cls
            /\ gens[g].out[i].value[1].args = descriptors[i].args

(* C11: two keys compare equal exactly when they have the same type and the
   same arguments in the same order, != is the negation of ==, and equal keys
   have equal hashes *)
C11_KeyStructural ==
    \A i \in 1..Len(got) :
        /\ got[i].eq <=> (got[i].k1.cls = got[i].k2.cls /\ got[i].k1.args = got[i].k2.args)
        /\ got[i].ne <=> ~got[i].eq
        /\ got[i].eq => got[i].h1 = got[i].h2

C11_Witness ==
    /\ Len(got) = 1
    /\ got[1].k1 = Key("A", <<1, 2>>)
    /\ got[1].k2 = Key("A", <<2, 1>>)
    /\ ~got[1].eq
    /\ got[1].ne

(* C12: a dependency declared None is handed to calculate as None under its
   name without a resolve, a calculate or a cache access, and a descriptor
   without dependencies is calculated with an empty mapping *)
C12_NoneDependency ==
    [][/\ (stack # <<>> /\ Top.phase = "deps" /\ Top.todo # <<>> /\ Head(Top.todo).kind = "none")
          => /\ gens' = gens
             /\ molecule' = molecule
             /\ Len(stack') = Len(stack)
             /\ LET a == stack'[Len(stack)].argv
                IN /\ Len(a) = Len(Top.argv) + 1
                   /\ SubSeq(a, 1, Len(Top.argv)) = Top.argv
                   /\ a[Len(a)].name = Head(Top.todo).name
                   /\ a[Len(a)].val = NoneVal
       /\ (stack # <<>> /\ Top.phase = "deps" /\ Top.todo = <<>>)
          => LET e == gens'[cur].log[Len(gens'[cur].log)]
                 ds == dependencies(e.desc)
             IN /\ Len(gens'[cur].log) = Len(gens[cur].log) + 1
                /\ Len(e.argv) = Len(ds)
                /\ \A i \in 1..Len(ds) :
                      /\ e.argv[i].name = ds[i].name
                      /\ ds[i].kind = "none" => e.argv[i].val = NoneVal]_vars

C12_Witness ==
    \E g \in Gens : \E i \in 1..Len(Log(g)), j \in 1..Len(Log(g)) :
        /\ Log(g)[i].desc.cls = "D"
        /\ Log(g)[i].argv[1].name = "d"
        /\ Log(g)[i].argv[1].val = NoneVal
        /\ Log(g)[j].desc.cls = "A"
        /\ Log(g)[j].argv = <<>>

(* C13: every call starts from an empty result cache and its own variant
   cache, so two completed calls on equal raw inputs with the same registered
   descriptors give equal output sequences *)
C13_CallsIndependent ==
    /\ \A g \in Gens : Log(g) = <<>> => gens[g].cache = EmptyMap
    /\ \A g \in Gens, h \in Gens :
          (gens[g].status = "done" /\ gens[h].status = "done" /\ gens[g].raw = gens[h].raw)
              => gens[g].out = gens[h].out

(* C14: after a resolve returns a value for an argument whose identity is K,
   the result cache of the call maps K to that value, so a later resolve of K
   in the same call is a hit *)
C14_CachedUnderIdentity ==
    \A i \in 1..Len(stack) : \A j \in 1..Len(stack[i].argv) :
        LET a == stack[i].argv[j]
        IN a.key # NoneKey =>
              /\ CacheHit(a.key, gens[cur].cache)
              /\ gens[cur].cache[a.key] = a.val

(* C15: calculate runs for a descriptor only after each of its dependencies
   that is not None has been resolved, the value passed under a dependency
   name is the value the result cache holds for that dependency's identity,
   and nothing already cached is calculated *)
C15_DependenciesFirst ==
    [][(stack # <<>> /\ Top.phase = "deps" /\ Top.todo = <<>>)
          => LET d == Inst(Top.desc.cls, Top.desc.args)
                 ds == dependencies(d)
             IN /\ Len(Top.argv) = Len(ds)
                /\ \A j \in 1..Len(ds) :
                      ds[j].kind # "none" =>
                          LET K == RefKey(Ref(ds[j].kind = "key", ds[j].cls, ds[j].args))
                          IN /\ Top.argv[j].name = ds[j].name
                             /\ CacheHit(K, gens[cur].cache)
                             /\ gens[cur].cache[K] = Top.argv[j].val
                /\ ~CacheHit(descriptor_key(d), gens[cur].cache)]_vars

(* C16: the variant cache is closed under the derivation chain: a kekulized
   variant is cached only together with the plain variant of the same
   hydration, a charged variant only together with its uncharged variant, and
   every get leaves an entry for the flags it was asked for *)
C16_CacheClosed ==
    /\ \A e \in BOOLEAN :
          InCache(key(e, TRUE, FALSE), molecule.cache) => InCache(key(e, FALSE, FALSE), molecule.cache)
    /\ \A e \in BOOLEAN, k \in BOOLEAN :
          InCache(key(e, k, TRUE), molecule.cache) => InCache(key(e, k, FALSE), molecule.cache)
    /\ \A i \in 1..Len(got) :
          /\ InCache(got[i].flags, molecule.cache)
          /\ molecule.cache[got[i].flags] = got[i].obj

C16_Witness ==
    /\ Len(got) = 1
    /\ got[1].flags = key(FALSE, TRUE, TRUE)
    /\ DOMAIN molecule.cache = {key(FALSE, TRUE, TRUE), key(FALSE, TRUE, FALSE), key(FALSE, FALSE, FALSE)}

IsPrefix(a, b) == Len(a) <= Len(b) /\ SubSeq(b, 1, Len(a)) = a

(* C17: each aggregate flag of the calculator is true exactly when some
   descriptor in its list has the corresponding flag, no aggregate flag goes
   back to false, and the list only grows at its end *)
C17_AggregateFlags ==
    /\ [](/\ aggr.explicitH <=> \E i \in 1..Len(descriptors) : Classes[descriptors[i].cls].flags.explicit_hydrogens
          /\ aggr.gasteiger <=> \E i \in 1..Len(descriptors) : Classes[descriptors[i].cls].flags.gasteiger_charges
          /\ aggr.kekulize <=> \E i \in 1..Len(descriptors) : Classes[descriptors[i].cls].flags.kekulize)
    /\ [][/\ IsPrefix(descriptors, descriptors')
          /\ aggr.explicitH => aggr'.explicitH
          /\ aggr.gasteiger => aggr'.gasteiger
          /\ aggr.kekulize => aggr'.kekulize]_vars

C17_Witness ==
    /\ Len(descriptors) = 3
    /\ descriptors[1].cls = "G"
    /\ descriptors[2].cls = "D"
    /\ descriptors[3].cls = "D"
    /\ aggr = [explicitH |-> TRUE, gasteiger |-> TRUE, kekulize |-> TRUE]

(* C18: resolving a descriptor whose descriptor_key is None ends the call
   with the "[bug] descriptor key not provided" error, and the result cache
   gets no entry for it: nothing is ever stored under None *)
C18_MissingKey ==
    /\ [](\A g \in Gens : ~CacheHit(NoneKey, gens[g].cache))
    /\ [][(/\ stack # <<>>
           /\ Top.phase = "deps"
           /\ Top.todo = <<>>
           /\ descriptor_key(Inst(Top.desc.cls, Top.desc.args)) = NoneKey
           /\ ~Classes[Top.desc.cls].fails)
          => /\ gens'[cur].status = "failed"
             /\ gens'[cur].err = "ValueError: [bug] descriptor key not provided"
             /\ gens'[cur].cache = gens[cur].cache
             /\ gens'[cur].out = gens[cur].out
             /\ stack' = <<>>]_vars

C18_Witness ==
    \E g \in Gens :
        /\ gens[g].status = "failed"
        /\ gens[g].err = "ValueError: [bug] descriptor key not provided"
        /\ Len(Log(g)) > 0
        /\ Log(g)[Len(Log(g))].desc.cls = "N"

NonNoneDeps(c) == {Classes[c].deps[i] : i \in {j \in 1..Len(Classes[c].deps) : Classes[c].deps[j].kind # "none"}}

RECURSIVE ReachCls(_, _)
ReachCls(c, n) ==
    {c} \cup (IF n = 0 \/ ~IsDescriptorType(c) THEN {}
              ELSE UNION {ReachCls(dep.cls, n - 1) : dep \in NonNoneDeps(c)})

Cyclic(c) == \E dep \in NonNoneDeps(c) : c \in ReachCls(dep.cls, Cardinality(DescriptorTypes))

AcyclicRegistry ==
    \A i \in 1..Len(descriptors) :
        \A c \in ReachCls(descriptors[i].cls, Cardinality(DescriptorTypes)) : ~Cyclic(c)

(* the identities reachable from a descriptor or key: its own descriptor_key
   and those of its dependencies, transitively *)
RECURSIVE ReachIds(_, _)
ReachIds(r, n) ==
    {RefKey(r)} \cup (IF n = 0 \/ ~Constructible(r.cls, r.args) THEN {}
                      ELSE UNION {ReachIds(Ref(dep.kind = "key", dep.cls, dep.args), n - 1) :
                                    dep \in NonNoneDeps(r.cls)})

RegistryIds ==
    UNION {ReachIds(Ref(FALSE, descriptors[i].cls, descriptors[i].args), Cardinality(DescriptorTypes)) :
             i \in 1..Len(descriptors)}

(* C19: with an acyclic dependency graph, one call calculates at most as
   many times as there are distinct descriptor identities reachable from the
   registered descriptors *)
C19_ComputeBound ==
    AcyclicRegistry => \A g \in Gens : Len(Log(g)) <= Cardinality(RegistryIds)

====
